---- MODULE Spec2Model ----
(***************************************************************************)
(* Association-rule mining core of data-mining-association-rules:         *)
(* aprioriAlgorithm, generateCandidates, fpGrowthAlgorithm and             *)
(* generateAssociationRules of server/src/handlers/mining.ts, and the      *)
(* tRPC procedures that validate MiningParameters before calling them.     *)
(*                                                                         *)
(* Item names are JavaScript strings.  A name is modelled as the sequence  *)
(* of its comma-free segments (<<2, 1>> is the name "2,1"), each segment   *)
(* one character, so that candidate.sort().join(',') and key.split(',')    *)
(* are computed as the code computes them.  Numbers are exact fractions    *)
(* [n, d]; d = 0 gives the IEEE results of a division by zero              *)
(* (n > 0: Infinity, n = 0: NaN).                                          *)
(*                                                                         *)
(* Spec is the mining core on every small list of baskets.  Server is the  *)
(* handlers (mining, transactions, items, import) called concurrently on   *)
(* one database: an action is one statement of a handler together with     *)
(* the synchronous code up to its next await.  Auth is login and           *)
(* getCurrentUser of server/src/handlers/auth.ts called over two days.     *)
(***************************************************************************)
EXTENDS Integers, Sequences, FiniteSets, TLC

VARIABLES
    transactions,       \* string[][] returned by getTransactionData, in row order
    parameters,         \* MiningParameters of the run: min_support, min_confidence
    algorithm,          \* which miner produced the current result
    pc,                 \* "ready" | "rejected" | "mined" | "again"
    frequent_itemsets,  \* FrequentItemset[] of the latest run
    association_rules,  \* AssociationRule[] of the latest run
    first_run,          \* itemsets and rules of the first run, as sets, and its rows
    zero_divisions,     \* number of divisions by zero the latest run executed
    itemsTable,             \* rows of items
    transactionsTable,      \* rows of transactions
    transactionItemsTable,  \* rows of transaction_items, in insertion order
    miningResultsTable,     \* rows of mining_results, in insertion order
    serial,                 \* next value of each table's serial id
    now,                    \* Date.now(), in milliseconds
    requests                \* the calls in progress: arguments, locals, outcome

mining == <<transactions, parameters, algorithm, pc, frequent_itemsets,
            association_rules, first_run, zero_divisions>>

tables == <<itemsTable, transactionsTable, transactionItemsTable,
            miningResultsTable, serial>>

server == <<tables, now, requests>>

vars == <<mining, server>>

\* ------------------------------------------------------------------ bounds
MaxLineItems == 3

\* Item names in use: three plain names and one that contains a comma.
ItemNames == {<<1>>, <<2>>, <<3>>, <<2, 1>>}

\* ----------------------------------------------------------------- numbers
Num(k) == [n |-> k, d |-> 1]

Frac(a, b) == [n |-> a, d |-> b]

RECURSIVE GCD(_, _)
GCD(a, b) == IF b = 0 THEN a ELSE GCD(b, a % b)

\* Canonical form of a non-negative fraction, Infinity (1/0) or NaN (0/0).
Norm(x) ==
    IF x.d = 0 THEN [n |-> IF x.n = 0 THEN 0 ELSE 1, d |-> 0]
    ELSE LET g == GCD(x.n, x.d) IN [n |-> x.n \div g, d |-> x.d \div g]

\* JavaScript a / b on non-negative numbers.
Div(a, b) == Norm([n |-> a.n * b.d, d |-> a.d * b.n])

IsNaN(x) == x.n = 0 /\ x.d = 0

IsFinite(x) == x.d # 0

\* the comparison turned round: a <= b
GE_reversed(a, b) == ~IsNaN(a) /\ ~IsNaN(b) /\ a.n * b.d <= b.n * a.d

\* JavaScript a >= b: false as soon as one side is NaN.
GE(a, b) == ~IsNaN(a) /\ ~IsNaN(b) /\ a.n * b.d >= b.n * a.d

\* Math.floor in place of Math.ceil
CeilMul_floor(x, total) == (x.n * total) \div x.d

\* Math.ceil(minSupport * totalTransactions)
CeilMul(x, total) == (x.n * total + x.d - 1) \div x.d

\* ------------------------------------------------------------------ strings
Min(a, b) == IF a < b THEN a ELSE b

\* a < b in the order Array.prototype.sort() uses (UTF-16 code units).
NameLess(a, b) ==
    \E i \in 1..(Min(Len(a), Len(b)) + 1) :
        /\ \A l \in 1..(i - 1) : a[l] = b[l]
        /\ \/ i > Len(a) /\ i <= Len(b)
           \/ i <= Len(a) /\ i <= Len(b) /\ a[i] < b[i]

RECURSIVE Insert(_, _)
Insert(x, s) ==
    IF s = <<>> THEN <<x>>
    ELSE IF NameLess(x, Head(s)) THEN <<x>> \o s
    ELSE <<Head(s)>> \o Insert(x, Tail(s))

\* array.sort() with the default comparator.
RECURSIVE Sort(_)
Sort(s) == IF s = <<>> THEN <<>> ELSE Insert(Head(s), Sort(Tail(s)))

RECURSIVE Flatten(_)
Flatten(ss) == IF ss = <<>> THEN <<>> ELSE Head(ss) \o Flatten(Tail(ss))

\* candidate.sort().join(','): the segments of the sorted names, in order.
Join(candidate) == Flatten(Sort(candidate))

\* key.split(','): one name per comma-free segment.
Split(key) == [i \in 1..Len(key) |-> <<key[i]>>]

\* array[l] with JavaScript's undefined outside the array.
undefined == <<-1>>

At(s, l) == IF l \in DOMAIN s THEN s[l] ELSE undefined

\* -------------------------------------------------------------------- scans
includes(transaction, item) == \E i \in DOMAIN transaction : transaction[i] = item

\* itemset.every(item => transaction.includes(item))
every(itemset, transaction) ==
    \A i \in DOMAIN itemset : includes(transaction, itemset[i])

\* Number of transactions that contain every item of the itemset.
scanCount(itemset, txs) == Cardinality({t \in DOMAIN txs : every(itemset, txs[t])})

\* map.set(key, (map.get(key) || 0) + 1) on a Map kept in insertion order.
MapInc(m, key) ==
    IF \E i \in DOMAIN m : m[i][1] = key
    THEN [i \in DOMAIN m |-> IF m[i][1] = key THEN <<key, m[i][2] + 1>> ELSE m[i]]
    ELSE Append(m, <<key, 1>>)

RECURSIVE CountAll(_, _)
CountAll(keys, m) ==
    IF keys = <<>> THEN m ELSE CountAll(Tail(keys), MapInc(m, Head(keys)))

\* itemCounts: occurrences of every item over all transactions.
itemCounts(txs) == CountAll(Flatten(txs), <<>>)

\* ------------------------------------------------------------------ Apriori
MaxK == 3

RECURSIVE genFrom(_, _, _, _)
genFrom(itemsets, k, i, j) ==
    IF i > Len(itemsets) THEN <<>>
    ELSE IF j > Len(itemsets) THEN genFrom(itemsets, k, i + 1, i + 2)
    ELSE LET itemset1 == Sort(itemsets[i])
             itemset2 == Sort(itemsets[j])
             canCombine == \A l \in 1..(k - 2) : At(itemset1, l) = At(itemset2, l)
             newCandidate == Sort(Append(itemset1, itemset2[Len(itemset2)]))
         IN  (IF canCombine THEN <<newCandidate>> ELSE <<>>)
                 \o genFrom(itemsets, k, i, j + 1)

\* generateCandidates: the candidates it returns.
generateCandidates(itemsets, k) == genFrom(itemsets, k, 1, 2)

\* generateCandidates: what its in-place sort() calls leave in the itemsets
\* it was given (they are the arrays held by the FrequentItemset records).
sortedInPlace(itemsets) ==
    IF Len(itemsets) >= 2 THEN [i \in DOMAIN itemsets |-> Sort(itemsets[i])]
    ELSE itemsets

RECURSIVE keysOf(_, _)
keysOf(transaction, candidates) ==
    IF candidates = <<>> THEN <<>>
    ELSE (IF every(Head(candidates), transaction)
          THEN <<Join(Head(candidates))>> ELSE <<>>)
             \o keysOf(transaction, Tail(candidates))

\* candidateCounts: one increment per (transaction, candidate) match.
candidateCounts(txs, candidates) ==
    CountAll(Flatten([t \in DOMAIN txs |-> keysOf(txs[t], candidates)]), <<>>)

Keep(counts, minSupportCount) ==
    LET frequent(e) == e[2] >= minSupportCount IN SelectSeq(counts, frequent)

itemsetsOf(fis) == [i \in DOMAIN fis |-> fis[i].itemset]

RECURSIVE aprioriLevels(_, _, _, _, _)
aprioriLevels(txs, minSupportCount, frequentItemsets, candidateItemsets, k) ==
    IF ~(Len(candidateItemsets) > 0 /\ k <= MaxK) THEN frequentItemsets
    ELSE LET kept == Keep(candidateCounts(txs, candidateItemsets), minSupportCount)
             kFrequentItemsets ==
                 [i \in DOMAIN kept |->
                     [itemset |-> Split(kept[i][1]),
                      support |-> Div(Num(kept[i][2]), Num(Len(txs))),
                      count   |-> kept[i][2]]]
             sorted == sortedInPlace(itemsetsOf(kFrequentItemsets))
             afterCall ==
                 [i \in DOMAIN kFrequentItemsets |->
                     [kFrequentItemsets[i] EXCEPT !.itemset = sorted[i]]]
         IN  aprioriLevels(txs, minSupportCount, frequentItemsets \o afterCall,
                           generateCandidates(itemsetsOf(kFrequentItemsets), k + 1),
                           k + 1)

\* the level-wise search seeded with the empty itemset, contained in every
\* transaction
aprioriAlgorithm_seeded(txs, minSupport) ==
    LET totalTransactions == Len(txs)
        minSupportCount == CeilMul(minSupport, totalTransactions)
        kept == Keep(itemCounts(txs), minSupportCount)
        frequentItemsets ==
            [i \in DOMAIN kept |->
                [itemset |-> <<kept[i][1]>>,
                 support |-> Div(Num(kept[i][2]), Num(totalTransactions)),
                 count   |-> kept[i][2]]]
        seed == [itemset |-> <<>>,
                 support |-> Div(Num(totalTransactions), Num(totalTransactions)),
                 count   |-> totalTransactions]
    IN  aprioriLevels(txs, minSupportCount, <<seed>> \o frequentItemsets,
                      generateCandidates(itemsetsOf(frequentItemsets), 2), 2)

aprioriAlgorithm(txs, minSupport) ==
    LET totalTransactions == Len(txs)
        minSupportCount == CeilMul(minSupport, totalTransactions)
        kept == Keep(itemCounts(txs), minSupportCount)
        frequentItemsets ==
            [i \in DOMAIN kept |->
                [itemset |-> <<kept[i][1]>>,
                 support |-> Div(Num(kept[i][2]), Num(totalTransactions)),
                 count   |-> kept[i][2]]]
    IN  aprioriLevels(txs, minSupportCount, frequentItemsets,
                      generateCandidates(itemsetsOf(frequentItemsets), 2), 2)

\* ---------------------------------------------------------------- FP-Growth
\* Array.prototype.sort((a, b) => b[1] - a[1]): stable, descending by count.
RECURSIVE InsertDesc(_, _)
InsertDesc(e, s) ==
    IF s = <<>> THEN <<e>>
    ELSE IF Head(s)[2] > e[2] THEN <<Head(s)>> \o InsertDesc(e, Tail(s))
    ELSE <<e>> \o s

RECURSIVE SortDesc(_)
SortDesc(s) == IF s = <<>> THEN <<>> ELSE InsertDesc(Head(s), SortDesc(Tail(s)))

\* count > minSupportCount in place of count >= minSupportCount
RECURSIVE pairsFrom_strict(_, _, _, _, _)
pairsFrom_strict(txs, minSupportCount, frequentItems, i, j) ==
    IF i > Len(frequentItems) THEN <<>>
    ELSE IF j > Len(frequentItems)
         THEN pairsFrom_strict(txs, minSupportCount, frequentItems, i + 1, i + 2)
    ELSE LET itemset == <<frequentItems[i], frequentItems[j]>>
             count == scanCount(itemset, txs)
         IN  (IF count > minSupportCount
              THEN <<[itemset |-> Sort(itemset),
                      support |-> Div(Num(count), Num(Len(txs))),
                      count   |-> count]>>
              ELSE <<>>)
                 \o pairsFrom_strict(txs, minSupportCount, frequentItems, i, j + 1)

RECURSIVE pairsFrom(_, _, _, _, _)
pairsFrom(txs, minSupportCount, frequentItems, i, j) ==
    IF i > Len(frequentItems) THEN <<>>
    ELSE IF j > Len(frequentItems)
         THEN pairsFrom(txs, minSupportCount, frequentItems, i + 1, i + 2)
    ELSE LET itemset == <<frequentItems[i], frequentItems[j]>>
             count == scanCount(itemset, txs)
         IN  (IF count >= minSupportCount
              THEN <<[itemset |-> Sort(itemset),
                      support |-> Div(Num(count), Num(Len(txs))),
                      count   |-> count]>>
              ELSE <<>>)
                 \o pairsFrom(txs, minSupportCount, frequentItems, i, j + 1)

fpGrowthAlgorithm(txs, minSupport) ==
    LET totalTransactions == Len(txs)
        minSupportCount == CeilMul(minSupport, totalTransactions)
        sortedItems == Keep(SortDesc(itemCounts(txs)), minSupportCount)
        singles ==
            [i \in DOMAIN sortedItems |->
                [itemset |-> <<sortedItems[i][1]>>,
                 support |-> Div(Num(sortedItems[i][2]), Num(totalTransactions)),
                 count   |-> sortedItems[i][2]]]
        frequentItems == [i \in DOMAIN sortedItems |-> sortedItems[i][1]]
    IN  singles \o pairsFrom(txs, minSupportCount, frequentItems, 1, 2)

\* --------------------------------------------------------- association rules
\* (i >> j) & 1, j counted from 0
bit(i, j) == (i \div (2 ^ j)) % 2

\* The members of the itemset whose bit in i is b, in itemset order.
RECURSIVE side(_, _, _, _)
side(itemset, i, j, b) ==
    IF j > Len(itemset) THEN <<>>
    ELSE (IF bit(i, j - 1) = b THEN <<itemset[j]>> ELSE <<>>)
             \o side(itemset, i, j + 1, b)

\* lift divided by the consequent's own support (the textbook formula)
splitRule_textbookLift(fi, i, minConfidence, txs) ==
    LET antecedent == side(fi.itemset, i, 1, 1)
        consequent == side(fi.itemset, i, 1, 0)
        antecedentSupport == Div(Num(scanCount(antecedent, txs)), Num(Len(txs)))
        confidence == Div(fi.support, antecedentSupport)
        lift == Div(confidence, Div(Num(scanCount(consequent, txs)), Num(Len(txs))))
    IN  IF antecedent = <<>> \/ consequent = <<>> THEN <<>>
        ELSE IF GE(confidence, minConfidence)
        THEN <<[antecedent |-> Sort(antecedent),
                consequent |-> Sort(consequent),
                support    |-> fi.support,
                confidence |-> confidence,
                lift       |-> lift]>>
        ELSE <<>>

\* lift divided by the antecedent's support
splitRule_antecedentLift(fi, i, minConfidence, txs) ==
    LET antecedent == side(fi.itemset, i, 1, 1)
        consequent == side(fi.itemset, i, 1, 0)
        antecedentSupport == Div(Num(scanCount(antecedent, txs)), Num(Len(txs)))
        confidence == Div(fi.support, antecedentSupport)
        lift == Div(confidence, antecedentSupport)
    IN  IF antecedent = <<>> \/ consequent = <<>> THEN <<>>
        ELSE IF GE(confidence, minConfidence)
        THEN <<[antecedent |-> Sort(antecedent),
                consequent |-> Sort(consequent),
                support    |-> fi.support,
                confidence |-> confidence,
                lift       |-> lift]>>
        ELSE <<>>

\* One iteration of the split loop: the rule it pushes, if any.
splitRule(fi, i, minConfidence, txs) ==
    LET antecedent == side(fi.itemset, i, 1, 1)
        consequent == side(fi.itemset, i, 1, 0)
        antecedentCount == scanCount(antecedent, txs)
        antecedentSupport == Div(Num(antecedentCount), Num(Len(txs)))
        confidence == Div(fi.support, antecedentSupport)
        lift == Div(confidence, Div(Num(fi.count), Num(Len(txs))))
    IN  IF antecedent = <<>> \/ consequent = <<>> THEN <<>>
        ELSE IF GE(confidence, minConfidence)
        THEN <<[antecedent |-> Sort(antecedent),
                consequent |-> Sort(consequent),
                support    |-> fi.support,
                confidence |-> confidence,
                lift       |-> lift]>>
        ELSE <<>>

RECURSIVE splitsFrom(_, _, _, _)
splitsFrom(fi, i, minConfidence, txs) ==
    IF ~(i < 2 ^ Len(fi.itemset) - 1) THEN <<>>
    ELSE splitRule(fi, i, minConfidence, txs)
             \o splitsFrom(fi, i + 1, minConfidence, txs)

multiItemsets(frequentItemsets) ==
    LET multi(fi) == Len(fi.itemset) >= 2 IN SelectSeq(frequentItemsets, multi)

generateAssociationRules(frequentItemsets, minConfidence, txs) ==
    LET multis == multiItemsets(frequentItemsets)
    IN  Flatten([m \in DOMAIN multis |-> splitsFrom(multis[m], 1, minConfidence, txs)])

\* Divisions whose divisor is zero, counted over one miner call followed by
\* generateAssociationRules: count / totalTransactions for every itemset
\* pushed, then per split antecedentCount / totalTransactions,
\* itemset.support / antecedentSupport and, for an emitted rule,
\* itemset.count / totalTransactions and confidence / (that quotient).
zeroDivisions(frequentItemsets, minConfidence, txs) ==
    LET total == Len(txs)
        multis == multiItemsets(frequentItemsets)
        splits == UNION {{<<m, i>> : i \in 1..(2 ^ Len(multis[m].itemset) - 2)} :
                            m \in DOMAIN multis}
        ant(sp) == side(multis[sp[1]].itemset, sp[2], 1, 1)
        emitted(sp) == splitRule(multis[sp[1]], sp[2], minConfidence, txs) # <<>>
    IN  (IF total = 0 THEN Len(frequentItemsets) ELSE 0)
        + Cardinality({sp \in splits : total = 0})
        + Cardinality({sp \in splits : total # 0 /\ scanCount(ant(sp), txs) = 0})
        + Cardinality({sp \in splits : emitted(sp) /\ total = 0})
        + Cardinality({sp \in splits :
                          emitted(sp) /\ total # 0 /\ multis[sp[1]].count = 0})

\* ------------------------------------------------------------ basket source
\* A basket as getTransactionData builds it: the distinct item names of one
\* transaction, in row order.  A transaction whose line items all store the
\* quantity 0 comes back as the empty basket.
Baskets ==
    {b \in UNION {[1..n -> ItemNames] : n \in 0..Min(MaxLineItems, Cardinality(ItemNames))} :
        \A i, j \in DOMAIN b : i # j => b[i] # b[j]}

\* Line items a basket needs at least: one per name, one for the empty basket.
lineItems(b) == IF b = <<>> THEN 1 ELSE Len(b)

\* Every list of baskets over at most n line items.
RECURSIVE Databases(_)
Databases(n) ==
    {<<>>} \cup UNION {{<<b>> \o rest : rest \in Databases(n - lineItems(b))} :
                          b \in {c \in Baskets : lineItems(c) <= n}}

swap(s, i) ==
    [l \in DOMAIN s |-> IF l = i THEN s[i + 1] ELSE IF l = i + 1 THEN s[i] ELSE s[l]]

\* The select of getTransactionData has no ORDER BY: a later fetch of the
\* same rows may return them in another order.  One adjacent exchange of two
\* transactions or of two items of a transaction (or none) per fetch; every
\* row order is an initial state, so these generate all of them.
Refetched(txs) ==
    {txs}
    \cup {swap(txs, i) : i \in 1..(Len(txs) - 1)}
    \cup UNION {{[txs EXCEPT ![t] = swap(txs[t], i)] : i \in 1..(Len(txs[t]) - 1)} :
                   t \in DOMAIN txs}

\* ------------------------------------------------------------- the database
\* Bun.password.hash / Bun.password.verify: a hash verifies the password it
\* was made from and no other.
hash(password) == [hashOf |-> password]

verify(password, password_hash) == password_hash = hash(password)

\* The users table: an administrator and a plain user.  No handler of this
\* model writes it.
usersTable ==
    {[id |-> 1, username |-> "admin", password_hash |-> hash("adminpass"),
      role |-> "admin"],
     [id |-> 2, username |-> "testuser", password_hash |-> hash("testpass"),
      role |-> "user"]}

UserIds == {usr.id : usr \in usersTable}

\* getMiningResults(userId?: number) called without a user id
undefinedUserId == 0

\* The id of no user.
missingUserId == 3

\* The item row with the given id, as a list of zero or one rows.
itemById(id) == {it \in itemsTable : it.id = id}

\* transactions INNER JOIN transaction_items INNER JOIN items: one row per
\* line item whose transaction and item both exist, in line-item order.
joined ==
    LET matched(row) ==
            /\ \E t \in transactionsTable : t.id = row.transaction_id
            /\ itemById(row.item_id) # {}
        rows == SelectSeq(transactionItemsTable, matched)
    IN  [k \in DOMAIN rows |->
            [transactionId |-> rows[k].transaction_id,
             itemName      |-> (CHOOSE it \in itemById(rows[k].item_id) : TRUE).name,
             quantity      |-> rows[k].quantity]]

\* for (let i = 0; i < quantity; i++) push(itemName)
RECURSIVE pushTimes(_, _, _)
pushTimes(items, itemName, quantity) ==
    IF quantity <= 0 THEN items
    ELSE pushTimes(Append(items, itemName), itemName, quantity - 1)

\* transactionMap after the loop over the rows: <<transactionId, items>>
\* entries in insertion order.
RECURSIVE groupRows(_, _)
groupRows(results, transactionMap) ==
    IF results = <<>> THEN transactionMap
    ELSE LET result == Head(results)
             has == \E k \in DOMAIN transactionMap :
                        transactionMap[k][1] = result.transactionId
             withKey == IF has THEN transactionMap
                        ELSE Append(transactionMap, <<result.transactionId, <<>>>>)
             pushed ==
                 [k \in DOMAIN withKey |->
                     IF withKey[k][1] = result.transactionId
                     THEN <<withKey[k][1],
                            pushTimes(withKey[k][2], result.itemName, result.quantity)>>
                     ELSE withKey[k]]
         IN  groupRows(Tail(results), pushed)

\* [...new Set(items)]: the first occurrence of every name, in order.
RECURSIVE newSet(_, _)
newSet(items, seen) ==
    IF items = <<>> THEN seen
    ELSE newSet(Tail(items),
                IF includes(seen, Head(items)) THEN seen ELSE Append(seen, Head(items)))

\* getTransactionData on the rows its select returned.
getTransactionData(results) ==
    LET transactionMap == groupRows(results, <<>>)
    IN  [k \in DOMAIN transactionMap |->
            [transactionId |-> transactionMap[k][1],
             items         |-> newSet(transactionMap[k][2], <<>>)]]

\* ------------------------------------------------------------- the requests
\* Calls of handlers that can be in progress together.
Requests == {1, 2}

NoRequest ==
    [op |-> "none", pc |-> "idle", userId |-> undefinedUserId, input |-> <<>>,
     local |-> <<>>, response |-> <<>>]

\* A promise that resolved with a value / that rejected with an error.
resolved(value) == <<[status |-> "resolved", value |-> value]>>

rejected(error) == <<[status |-> "rejected", error |-> error]>>

\* A call starts in a free slot; the slots are taken in order.
canStart(r) ==
    /\ requests[r].pc = "idle"
    /\ \A s \in Requests : s < r => requests[s].pc # "idle"

\* The call of op by user u with the given input, suspended at its await pc.
call(op, u, input, pc0, local) ==
    [op |-> op, pc |-> pc0, userId |-> u, input |-> input, local |-> local,
     response |-> <<>>]

\* The call has returned or thrown.
finish(q, response) == [q EXCEPT !.pc = "done", !.response = response]

\* ----------------------------------------------------------- specification
\* min_support and min_confidence values a client may send.
RequestValues == {Frac(-1, 2), Frac(0, 1), Frac(1, 2), Frac(1, 1), Frac(3, 2)}

\* z.number().min(0).max(1)
inRange(x) == x.n >= 0 /\ x.n <= x.d

\* miningParametersSchema, the input validator of the three mining procedures.
miningParametersSchema(input) ==
    inRange(input.min_support) /\ inRange(input.min_confidence)

NoRun == [itemsets |-> {}, rules |-> {}, rows |-> <<>>]

asSets(itemsets, rules, rows) ==
    [itemsets |-> {itemsets[i] : i \in DOMAIN itemsets},
     rules    |-> {rules[i] : i \in DOMAIN rules},
     rows     |-> rows]

Init ==
    /\ transactions \in Databases(MaxLineItems)
    /\ parameters \in [min_support : RequestValues, min_confidence : RequestValues]
    /\ algorithm = "none"
    /\ pc = "ready"
    /\ frequent_itemsets = <<>>
    /\ association_rules = <<>>
    /\ first_run = NoRun
    /\ zero_divisions = 0
    /\ itemsTable = {}
    /\ transactionsTable = {}
    /\ transactionItemsTable = <<>>
    /\ miningResultsTable = <<>>
    /\ serial = [items |-> 1, transactions |-> 1, mining_results |-> 1]
    /\ now = 0
    /\ requests = [r \in Requests |-> NoRequest]

\* The selected miner.
mine(alg, txs, minSupport) ==
    IF alg = "apriori" THEN aprioriAlgorithm(txs, minSupport)
    ELSE fpGrowthAlgorithm(txs, minSupport)

\* aprioriAlgorithm / fpGrowthAlgorithm followed by generateAssociationRules.
Run(alg, txs) ==
    LET itemsets == mine(alg, txs, parameters.min_support)
    IN  /\ frequent_itemsets' = itemsets
        /\ association_rules' =
               generateAssociationRules(itemsets, parameters.min_confidence, txs)
        /\ zero_divisions' = zeroDivisions(itemsets, parameters.min_confidence, txs)
        /\ algorithm' = alg

\* A request whose input the validator refuses never reaches its handler.
Reject ==
    /\ pc = "ready"
    /\ ~miningParametersSchema(parameters)
    /\ pc' = "rejected"
    /\ UNCHANGED <<transactions, parameters, algorithm, frequent_itemsets,
                   association_rules, first_run, zero_divisions, server>>

\* runAprioriMining behind its validator: the miner and the rule generator.
MineApriori ==
    /\ pc = "ready"
    /\ miningParametersSchema(parameters)
    /\ Run("apriori", transactions)
    /\ pc' = "mined"
    /\ UNCHANGED <<transactions, parameters, first_run, server>>

\* runFPGrowthMining behind its validator: the miner and the rule generator.
MineFPGrowth ==
    /\ pc = "ready"
    /\ miningParametersSchema(parameters)
    /\ Run("fp_growth", transactions)
    /\ pc' = "mined"
    /\ UNCHANGED <<transactions, parameters, first_run, server>>

\* The same strategy run a second time on the same stored baskets.
MineAgain ==
    /\ pc = "mined"
    /\ \E fetched \in Refetched(transactions) :
           /\ transactions' = fetched
           /\ Run(algorithm, fetched)
    /\ first_run' = asSets(frequent_itemsets, association_rules, transactions)
    /\ pc' = "again"
    /\ UNCHANGED <<parameters, server>>

Next == Reject \/ MineApriori \/ MineFPGrowth \/ MineAgain

Spec == Init /\ [][Next]_vars

\* ------------------------------------------------------------ the handlers
MaxClock == 1

\* MiningParameters of the calls: both thresholds 0 or both one half, values
\* the validator accepts.
AcceptedParameters ==
    {p \in {[min_support |-> x, min_confidence |-> x] : x \in {Frac(0, 1), Frac(1, 2)}} :
        miningParametersSchema(p)}

\* A result user 2 mined with FP-Growth while no transaction was stored.
earlierResult ==
    [id |-> 1, algorithm |-> "fp_growth",
     parameters |-> [min_support |-> Frac(1, 2), min_confidence |-> Frac(1, 2)],
     frequent_itemsets |-> <<>>, association_rules |-> <<>>,
     execution_time_ms |-> 0, created_by |-> 2]

\* Two items, one transaction of each user, one stored mining result.
ServerInit ==
    /\ transactions = <<>>
    /\ parameters = [min_support |-> Frac(1, 1), min_confidence |-> Frac(1, 1)]
    /\ algorithm = "none"
    /\ pc = "ready"
    /\ frequent_itemsets = <<>>
    /\ association_rules = <<>>
    /\ first_run = NoRun
    /\ zero_divisions = 0
    /\ itemsTable = {[id |-> 1, name |-> <<1>>], [id |-> 2, name |-> <<2>>]}
    /\ transactionsTable = {[id |-> 1, created_by |-> 1], [id |-> 2, created_by |-> 2]}
    /\ transactionItemsTable =
           <<[transaction_id |-> 1, item_id |-> 1, quantity |-> 1],
             [transaction_id |-> 2, item_id |-> 2, quantity |-> 2]>>
    /\ miningResultsTable = <<earlierResult>>
    /\ serial = [items |-> 3, transactions |-> 3, mining_results |-> 2]
    /\ now = 0
    /\ requests = [r \in Requests |-> NoRequest]

\* Locals of runAprioriMining / runFPGrowthMining at the await of
\* getTransactionData: startTime has been read.  results are the
\* MiningResults compareMiningResults holds already; runs records, for every
\* run of the call, what it fetched and when its steps happened.
runLocal(alg, results, runs) ==
    [algorithm |-> alg, startTime |-> now, results |-> results, pending |-> <<>>,
     runs |-> runs, failure |-> <<>>]

RunAprioriMining ==
    \E r \in Requests, p \in AcceptedParameters, u \in UserIds :
        /\ canStart(r)
        /\ requests' = [requests EXCEPT ![r] =
               call("runAprioriMining", u, p, "fetch", runLocal("apriori", <<>>, <<>>))]
        /\ UNCHANGED <<mining, tables, now>>

RunFPGrowthMining ==
    \E r \in Requests, p \in AcceptedParameters, u \in UserIds :
        /\ canStart(r)
        /\ requests' = [requests EXCEPT ![r] =
               call("runFPGrowthMining", u, p, "fetch", runLocal("fp_growth", <<>>, <<>>))]
        /\ UNCHANGED <<mining, tables, now>>

\* compareMiningResults up to the await inside runAprioriMining.
CompareMiningResults ==
    \E r \in Requests, p \in AcceptedParameters, u \in UserIds :
        /\ canStart(r)
        /\ requests' = [requests EXCEPT ![r] =
               call("compareMiningResults", u, p, "fetch", runLocal("apriori", <<>>, <<>>))]
        /\ UNCHANGED <<mining, tables, now>>

\* Time passes while a call waits for its baskets.
Tick ==
    /\ now < MaxClock
    /\ \E r \in Requests : requests[r].pc = "fetch"
    /\ now' = now + 1
    /\ UNCHANGED <<mining, tables, requests>>

\* created_by taken from the placeholder context, not from the caller
values_placeholderUser(alg, p, frequentItemsets, associationRules, executionTime, userId) ==
    [algorithm |-> alg,
     parameters |-> [min_support |-> p.min_support, min_confidence |-> p.min_confidence],
     frequent_itemsets |-> frequentItemsets,
     association_rules |-> associationRules,
     execution_time_ms |-> executionTime,
     created_by |-> 1]

\* The row the insert of a run writes, without its id.
values(alg, p, frequentItemsets, associationRules, executionTime, userId) ==
    [algorithm |-> alg,
     parameters |-> [min_support |-> p.min_support, min_confidence |-> p.min_confidence],
     frequent_itemsets |-> frequentItemsets,
     association_rules |-> associationRules,
     execution_time_ms |-> executionTime,
     created_by |-> userId]

\* The select of getTransactionData returns; the miner and the rule
\* generator run, taking d milliseconds; executionTime is computed and the
\* insert is issued.
FetchAndMine ==
    \E r \in Requests, d \in 0..1 :
        LET q == requests[r]
            transactionData == getTransactionData(joined)
            baskets == [k \in DOMAIN transactionData |-> transactionData[k].items]
            frequentItemsets == mine(q.local.algorithm, baskets, q.input.min_support)
            associationRules ==
                generateAssociationRules(frequentItemsets, q.input.min_confidence, baskets)
            executionTime == (now + d) - q.local.startTime
            run == [results |-> joined, transactionData |-> transactionData,
                    parameters |-> q.input, fetchedAt |-> now, stoppedAt |-> now + d]
        IN  /\ q.pc = "fetch"
            /\ now + d <= MaxClock
            /\ now' = now + d
            /\ requests' = [requests EXCEPT
                   ![r].pc = "insert",
                   ![r].local.pending =
                       values(q.local.algorithm, q.input, frequentItemsets,
                              associationRules, executionTime, q.userId),
                   ![r].local.runs = Append(@, run)]
            /\ UNCHANGED <<mining, tables>>

\* a new error thrown in place of the one caught
rethrow_wrapped(error) == "Mining failed"

\* catch (error) { console.error(...); throw error; }
rethrow(error) == error

\* The error as it leaves the call: compareMiningResults catches and rethrows
\* what runAprioriMining or runFPGrowthMining rethrew.
leaves(op, error) ==
    IF op = "compareMiningResults" THEN rethrow(rethrow(error)) ELSE rethrow(error)

\* the call returns the results it holds in place of throwing
fails_returned(q, error) ==
    finish([q EXCEPT !.local.failure = <<error>>], resolved(q.local.results))

\* The call rejects because the database refused its statement.
fails(q, error) ==
    finish([q EXCEPT !.local.failure = <<error>>], rejected(leaves(q.op, error)))

\* The select of getTransactionData fails.
FetchFails ==
    \E r \in Requests :
        /\ requests[r].pc = "fetch"
        /\ requests' = [requests EXCEPT ![r] = fails(requests[r], "select failed")]
        /\ UNCHANGED <<mining, tables, now>>

\* a tie in time decided for Apriori: <= in place of <
comparison_tieToApriori(aprioriResult, fpGrowthResult) ==
    [apriori_result |-> aprioriResult,
     fp_growth_result |-> fpGrowthResult,
     comparison_metrics |->
         [execution_time_difference |->
              fpGrowthResult.execution_time_ms - aprioriResult.execution_time_ms,
          itemsets_count_difference |->
              Len(fpGrowthResult.frequent_itemsets) - Len(aprioriResult.frequent_itemsets),
          rules_count_difference |->
              Len(fpGrowthResult.association_rules) - Len(aprioriResult.association_rules),
          faster_algorithm |->
              IF aprioriResult.execution_time_ms <= fpGrowthResult.execution_time_ms
              THEN "apriori" ELSE "fp_growth"]]

\* comparison_metrics and the MiningComparison compareMiningResults returns.
comparison(aprioriResult, fpGrowthResult) ==
    [apriori_result |-> aprioriResult,
     fp_growth_result |-> fpGrowthResult,
     comparison_metrics |->
         [execution_time_difference |->
              fpGrowthResult.execution_time_ms - aprioriResult.execution_time_ms,
          itemsets_count_difference |->
              Len(fpGrowthResult.frequent_itemsets) - Len(aprioriResult.frequent_itemsets),
          rules_count_difference |->
              Len(fpGrowthResult.association_rules) - Len(aprioriResult.association_rules),
          faster_algorithm |->
              IF aprioriResult.execution_time_ms < fpGrowthResult.execution_time_ms
              THEN "apriori" ELSE "fp_growth"]]

\* The insert into mining_results succeeds and the run returns its
\* MiningResult; compareMiningResults goes on with runFPGrowthMining, or
\* returns the comparison.
InsertMiningResult ==
    \E r \in Requests :
        LET q == requests[r]
            savedResult == [id |-> serial.mining_results] @@ q.local.pending
            results == Append(q.local.results, savedResult)
        IN  /\ q.pc = "insert"
            /\ miningResultsTable' = Append(miningResultsTable, savedResult)
            /\ serial' = [serial EXCEPT !.mining_results = @ + 1]
            /\ requests' = [requests EXCEPT ![r] =
                   IF q.op # "compareMiningResults"
                   THEN finish([q EXCEPT !.local.results = results],
                               resolved(savedResult))
                   ELSE IF q.local.algorithm = "apriori"
                   THEN [q EXCEPT !.pc = "fetch",
                                  !.local = runLocal("fp_growth", results, q.local.runs)]
                   ELSE finish([q EXCEPT !.local.results = results],
                               resolved(comparison(results[1], results[2])))]
            /\ UNCHANGED <<mining, itemsTable, transactionsTable,
                           transactionItemsTable, now>>

\* The insert into mining_results fails.
InsertFails ==
    \E r \in Requests :
        /\ requests[r].pc = "insert"
        /\ requests' = [requests EXCEPT ![r] = fails(requests[r], "insert failed")]
        /\ UNCHANGED <<mining, tables, now>>

\* The select of getMiningResults.
getMiningResults(userId) ==
    LET own(row) == row.created_by = userId
    IN  IF userId # undefinedUserId THEN SelectSeq(miningResultsTable, own)
        ELSE miningResultsTable

\* the row with the id, whoever created it
getMiningResultById_anyUser(id, userId) ==
    LET match(row) == row.id = id
        results == SelectSeq(miningResultsTable, match)
    IN  IF Len(results) = 0 THEN <<>> ELSE <<results[1]>>

\* The select of getMiningResultById: no row (null) or the first row.
getMiningResultById(id, userId) ==
    LET match(row) == row.id = id /\ row.created_by = userId
        results == SelectSeq(miningResultsTable, match)
    IN  IF Len(results) = 0 THEN <<>> ELSE <<results[1]>>

\* The locals of a read: the rows stored when its select ran.
readLocal == [stored |-> miningResultsTable]

GetMiningResults ==
    \E r \in Requests, u \in UserIds \cup {undefinedUserId} :
        /\ canStart(r)
        /\ requests' = [requests EXCEPT ![r] =
               finish(call("getMiningResults", u, <<>>, "select", readLocal),
                      resolved(getMiningResults(u)))]
        /\ UNCHANGED <<mining, tables, now>>

GetMiningResultById ==
    \E r \in Requests, id \in 1..serial.mining_results, u \in UserIds :
        /\ canStart(r)
        /\ requests' = [requests EXCEPT ![r] =
               finish(call("getMiningResultById", u, id, "select", readLocal),
                      resolved(getMiningResultById(id, u)))]
        /\ UNCHANGED <<mining, tables, now>>

\* createTransactionInputSchema: at least one item, every quantity a positive
\* integer.  Item 3 exists only once an import has created it.
CreateTransactionInputs ==
    {<<[item_id |-> 1, quantity |-> 1]>>,
     <<[item_id |-> 2, quantity |-> 2], [item_id |-> 1, quantity |-> 1]>>,
     <<[item_id |-> 1, quantity |-> 1], [item_id |-> 3, quantity |-> 1]>>}

\* createTransaction: the select of the user.
CreateTransaction ==
    \E r \in Requests, input \in CreateTransactionInputs, u \in UserIds \cup {missingUserId} :
        LET q == call("createTransaction", u, input, "check_item",
                      [i |-> 1, found |-> <<>>, transaction |-> <<>>])
        IN  /\ canStart(r)
            /\ requests' = [requests EXCEPT ![r] =
                   IF {usr \in usersTable : usr.id = u} = {}
                   THEN finish(q, rejected("User not found")) ELSE q]
            /\ UNCHANGED <<mining, tables, now>>

\* the loop goes on although the select returned no item
afterItemCheck_ignored(q, item) ==
    LET checked == [q EXCEPT !.local.found = Append(@, item # {})]
    IN  IF q.local.i < Len(q.input) THEN [checked EXCEPT !.local.i = @ + 1]
        ELSE [checked EXCEPT !.pc = "insert_transaction"]

\* createTransaction after the select of one item returned the rows item:
\* the throw, the next item of the loop, or the insert of the transaction.
afterItemCheck(q, item) ==
    LET itemId == q.input[q.local.i].item_id
        checked == [q EXCEPT !.local.found = Append(@, item # {})]
    IN  IF item = {}
        THEN finish(checked, rejected("Item with id " \o ToString(itemId) \o " not found"))
        ELSE IF q.local.i < Len(q.input) THEN [checked EXCEPT !.local.i = @ + 1]
        ELSE [checked EXCEPT !.pc = "insert_transaction"]

\* createTransaction: the select of one item of the input.
CheckItemExists ==
    \E r \in Requests :
        LET q == requests[r]
        IN  /\ q.pc = "check_item"
            /\ requests' = [requests EXCEPT ![r] =
                   afterItemCheck(q, itemById(q.input[q.local.i].item_id))]
            /\ UNCHANGED <<mining, tables, now>>

\* createTransaction: the insert into transactions.
InsertTransaction ==
    \E r \in Requests :
        LET q == requests[r]
            transaction == [id |-> serial.transactions, created_by |-> q.userId]
        IN  /\ q.pc = "insert_transaction"
            /\ transactionsTable' = transactionsTable \cup {transaction}
            /\ serial' = [serial EXCEPT !.transactions = @ + 1]
            /\ requests' = [requests EXCEPT ![r].pc = "insert_items",
                                            ![r].local.transaction = <<transaction>>]
            /\ UNCHANGED <<mining, itemsTable, transactionItemsTable,
                           miningResultsTable, now>>

\* createTransaction: the insert of all line items, and the return.
InsertTransactionItems ==
    \E r \in Requests :
        LET q == requests[r]
            transaction == q.local.transaction[1]
            transactionItemsData ==
                [k \in DOMAIN q.input |->
                    [transaction_id |-> transaction.id,
                     item_id        |-> q.input[k].item_id,
                     quantity       |-> q.input[k].quantity]]
        IN  /\ q.pc = "insert_items"
            /\ transactionItemsTable' = transactionItemsTable \o transactionItemsData
            /\ requests' = [requests EXCEPT ![r] = finish(q, resolved(transaction))]
            /\ UNCHANGED <<mining, itemsTable, transactionsTable, miningResultsTable,
                           serial, now>>

\* The transaction with this id if this user created it, else none (null).
getTransactionById(id, userId) ==
    {t \in transactionsTable : t.id = id /\ t.created_by = userId}

\* deleteTransaction: the select of getTransactionById.  The locals keep
\* the row the select returned, and for each delete the number of rows it
\* removed.
DeleteTransaction ==
    \E r \in Requests, id \in 1..serial.transactions, u \in UserIds :
        LET transaction == getTransactionById(id, u)
            q == call("deleteTransaction", u, id, "delete_items",
                      [transaction |-> transaction, itemRowCount |-> 0, rowCount |-> 0,
                       remaining |-> 0])
        IN  /\ canStart(r)
            /\ requests' = [requests EXCEPT ![r] =
                   IF transaction = {} THEN finish(q, resolved(FALSE)) ELSE q]
            /\ UNCHANGED <<mining, tables, now>>

\* deleteTransaction: the delete of the transaction's line items.
DeleteTransactionItems ==
    \E r \in Requests :
        LET q == requests[r]
            others(row) == row.transaction_id # q.input
            kept == SelectSeq(transactionItemsTable, others)
        IN  /\ q.pc = "delete_items"
            /\ transactionItemsTable' = kept
            /\ requests' = [requests EXCEPT
                   ![r].pc = "delete_transaction",
                   ![r].local.itemRowCount = Len(transactionItemsTable) - Len(kept)]
            /\ UNCHANGED <<mining, itemsTable, transactionsTable, miningResultsTable,
                           serial, now>>

\* (result.rowCount ?? 0) > 0
deleted(rowCount) == rowCount > 0

\* deleteTransaction: the delete of the transaction row, and the return.
\* remaining counts the line items of the transaction stored at the return.
DeleteTransactionRow ==
    \E r \in Requests :
        LET q == requests[r]
            result == getTransactionById(q.input, q.userId)
            ofTransaction(row) == row.transaction_id = q.input
        IN  /\ q.pc = "delete_transaction"
            /\ transactionsTable' = transactionsTable \ result
            /\ requests' = [requests EXCEPT ![r] =
                   finish([q EXCEPT !.local.rowCount = Cardinality(result),
                                    !.local.remaining =
                                        Len(SelectSeq(transactionItemsTable, ofTransaction))],
                          resolved(deleted(Cardinality(result))))]
            /\ UNCHANGED <<mining, itemsTable, transactionItemsTable,
                           miningResultsTable, serial, now>>

\* a user id that is not stored counts as an administrator
notAdmin_missingPasses(user) ==
    user # {} /\ (CHOOSE usr \in user : TRUE).role # "admin"

\* !user.length || user[0].role !== 'admin', on the rows the select of the
\* user returned
notAdmin(user) ==
    user = {} \/ (CHOOSE usr \in user : TRUE).role # "admin"

userById(userId) == {usr \in usersTable : usr.id = userId}

\* createItemInputSchema: a name of at least one character.
CreateItemInputs == {[name |-> <<3>>]}

\* createItem: the select of the user and the admin check.
CreateItem ==
    \E r \in Requests, input \in CreateItemInputs, u \in UserIds \cup {missingUserId} :
        LET q == call("createItem", u, input, "insert_item", [result |-> {}])
        IN  /\ canStart(r)
            /\ requests' = [requests EXCEPT ![r] =
                   IF notAdmin(userById(u))
                   THEN finish(q, rejected("Only admin users can create items")) ELSE q]
            /\ UNCHANGED <<mining, tables, now>>

\* createItem: the insert of the item, and the return of the row.
InsertItem ==
    \E r \in Requests :
        LET q == requests[r]
            result == [id |-> serial.items, name |-> q.input.name]
        IN  /\ q.pc = "insert_item"
            /\ itemsTable' = itemsTable \cup {result}
            /\ serial' = [serial EXCEPT !.items = @ + 1]
            /\ requests' = [requests EXCEPT ![r] =
                   finish([q EXCEPT !.local.result = {result}], resolved(result))]
            /\ UNCHANGED <<mining, transactionsTable, transactionItemsTable,
                           miningResultsTable, now>>

\* updateItemInputSchema: an id and an optional name (<<>>: no name given).
\* Item 2 is stored; item 3 only once it has been created.
UpdateItemInputs ==
    [id : {2, 3}, name : {<<>>, <<<<2, 1>>>>}]

\* updateItem: the select of the user and the admin check; updateData is
\* built from the fields given.
UpdateItem ==
    \E r \in Requests, input \in UpdateItemInputs, u \in UserIds \cup {missingUserId} :
        LET q == call("updateItem", u, input,
                      IF input.name = <<>> THEN "get_item" ELSE "update_item",
                      [result |-> {}])
        IN  /\ canStart(r)
            /\ requests' = [requests EXCEPT ![r] =
                   IF notAdmin(userById(u))
                   THEN finish(q, rejected("Only admin users can update items")) ELSE q]
            /\ UNCHANGED <<mining, tables, now>>

\* result.length > 0 ? result[0] : null
firstOrNull(result) == IF result = {} THEN <<>> ELSE <<CHOOSE row \in result : TRUE>>

\* updateItem without a field to update: the select of getItemById.
GetItemById ==
    \E r \in Requests :
        LET q == requests[r]
        IN  /\ q.pc = "get_item"
            /\ requests' = [requests EXCEPT ![r] =
                   finish(q, resolved(firstOrNull(itemById(q.input.id))))]
            /\ UNCHANGED <<mining, tables, now>>

\* updateItem: the update of the item row, and the return of the row.
UpdateItemRow ==
    \E r \in Requests :
        LET q == requests[r]
            result == {[it EXCEPT !.name = q.input.name[1]] : it \in itemById(q.input.id)}
        IN  /\ q.pc = "update_item"
            /\ itemsTable' = (itemsTable \ itemById(q.input.id)) \cup result
            /\ requests' = [requests EXCEPT ![r] =
                   finish([q EXCEPT !.local.result = result],
                          resolved(firstOrNull(result)))]
            /\ UNCHANGED <<mining, transactionsTable, transactionItemsTable,
                           miningResultsTable, serial, now>>

\* deleteItem: the select of the user and the admin check.
DeleteItem ==
    \E r \in Requests, id \in 1..serial.items, u \in UserIds \cup {missingUserId} :
        LET q == call("deleteItem", u, id, "check_used", [result |-> {}])
        IN  /\ canStart(r)
            /\ requests' = [requests EXCEPT ![r] =
                   IF notAdmin(userById(u))
                   THEN finish(q, rejected("Only admin users can delete items")) ELSE q]
            /\ UNCHANGED <<mining, tables, now>>

\* deleteItem: the select of the line items that use the item.
CheckItemUsed ==
    \E r \in Requests :
        LET q == requests[r]
        IN  /\ q.pc = "check_used"
            /\ requests' = [requests EXCEPT ![r] =
                   IF \E k \in DOMAIN transactionItemsTable :
                          transactionItemsTable[k].item_id = q.input
                   THEN finish(q, rejected("Cannot delete item that is used in transactions"))
                   ELSE [q EXCEPT !.pc = "delete_item"]]
            /\ UNCHANGED <<mining, tables, now>>

\* deleteItem: the delete of the item row, and the return.
DeleteItemRow ==
    \E r \in Requests :
        LET q == requests[r]
        IN  /\ q.pc = "delete_item"
            /\ itemsTable' = itemsTable \ itemById(q.input)
            /\ requests' = [requests EXCEPT ![r] =
                   finish([q EXCEPT !.local.result = itemById(q.input)],
                          resolved(itemById(q.input) # {}))]
            /\ UNCHANGED <<mining, transactionsTable, transactionItemsTable,
                           miningResultsTable, serial, now>>

\* The largest value of an integer column, and the numbers such a column
\* stores.
int4Max == 2147483647

isInt4(x) == x.d = 1 /\ x.n <= int4Max /\ x.n >= -int4Max - 1

\* A parsed row of a sheet: row.length, the date cell and the (item name,
\* quantity) cells that follow it.  An item name is a string (<<>> the empty
\* one); a quantity cell is <<>> when it is empty or missing, else <<x>> with
\* x its Number() (0/0, NaN, for a text that is no number).
sheetRow(dateValue, pairs) ==
    [length |-> 1 + 2 * Len(pairs), dateValue |-> dateValue, pairs |-> pairs]

pair(itemName, quantityValue) == [itemName |-> itemName, quantityValue |-> quantityValue]

\* ['2024-01-02', 'Apple']: a row that ends after the item name.
shortRow == [length |-> 2, dateValue |-> "2024-01-02", pairs |-> <<pair(<<1>>, <<>>)>>]

headerRow == sheetRow("Date", <<pair(<<1>>, <<Frac(0, 0)>>)>>)

\* The files imported, as parseCSVData returns them: half a unit of item
\* "1"; one and a half units of a new item "3"; a sheet of rows with an
\* unparseable date, too few columns, no valid quantity, no item name and
\* no cell filled, followed by three units of item "2"; an empty file; a
\* file of a header only; the quantity 'Infinity'.
ImportSheets ==
    {[has_header |-> FALSE, data |-> <<sheetRow("2024-01-01", <<pair(<<1>>, <<Frac(1, 2)>>)>>)>>],
     [has_header |-> FALSE, data |-> <<sheetRow("2024-01-01", <<pair(<<3>>, <<Frac(3, 2)>>)>>)>>],
     [has_header |-> TRUE,
      data |-> <<headerRow,
                 sheetRow("invalid-date", <<pair(<<1>>, <<Frac(5, 1)>>)>>),
                 shortRow,
                 sheetRow("2024-01-03", <<pair(<<1>>, <<Frac(0, 0)>>), pair(<<2>>, <<Frac(-1, 1)>>)>>),
                 sheetRow("2024-01-04", <<pair(<<>>, <<Frac(1, 1)>>)>>),
                 sheetRow("", <<pair(<<>>, <<>>)>>),
                 sheetRow("2024-01-05", <<pair(<<2>>, <<Frac(3, 1)>>), pair(<<>>, <<>>)>>)>>],
     [has_header |-> TRUE, data |-> <<>>],
     [has_header |-> TRUE, data |-> <<headerRow>>],
     [has_header |-> FALSE,
      data |-> <<sheetRow("2024-01-01", <<pair(<<1>>, <<Frac(1, 0)>>)>>)>>]}

\* row.every(cell => !cell || cell.trim() === '')
blank(r) ==
    /\ r.dateValue = ""
    /\ \A k \in DOMAIN r.pairs : r.pairs[k].itemName = <<>> /\ r.pairs[k].quantityValue = <<>>

\* parseDate: the date, or null (<<>>) for a text none of the formats reads.
parseDate(dateValue) ==
    IF dateValue \in {"2024-01-01", "2024-01-02", "2024-01-03", "2024-01-04", "2024-01-05"}
    THEN <<dateValue>> ELSE <<>>

\* !(!quantityValue || isNaN(Number(quantityValue)) || Number(quantityValue) <= 0)
validQuantity(quantityValue) ==
    /\ quantityValue # <<>>
    /\ ~IsNaN(quantityValue[1])
    /\ quantityValue[1].n > 0

\* Math.floor(Number(quantityValue)): a number, Infinity for Infinity.
floor(x) == IF x.d = 0 THEN x ELSE Num(x.n \div x.d)

\* The rows after the header.
rowsOf(input) == IF input.has_header /\ input.data # <<>> THEN Tail(input.data) ELSE input.data

\* rowNum = i + (input.has_header ? 2 : 1) for the row at index i of rows,
\* which this model counts from 1.
rowNum(input, i) == (i - 1) + (IF input.has_header THEN 2 ELSE 1)

rowError(input, i, message) == [row |-> rowNum(input, i), message |-> message]

\* The locals at the top of the row loop for row i.
nextRow(l, i) ==
    [l EXCEPT !.i = i, !.col = 1, !.transactionItems = <<>>, !.rowErrors = <<>>]

\* importTransactionsFromExcel from column pair local.col of row local.i up
\* to its next await, or to its return.
RECURSIVE resume(_)
resume(q) ==
    LET l == q.local
        rows == rowsOf(q.input)
        r == rows[l.i]
        skip(errors) == resume([q EXCEPT !.local = nextRow([l EXCEPT !.errors = errors],
                                                           l.i + 1)])
    IN  IF l.i > Len(rows)
        THEN finish(q, resolved([success        |-> l.imported_count > 0,
                                 imported_count |-> l.imported_count,
                                 errors         |-> l.errors]))
        ELSE IF l.col = 1 /\ l.transactionItems = <<>> /\ l.rowErrors = <<>> /\ blank(r)
        THEN skip(l.errors)
        ELSE IF r.length < 3
        THEN skip(Append(l.errors, rowError(q.input, l.i, "Expected at least 3 columns")))
        ELSE IF parseDate(r.dateValue) = <<>>
        THEN skip(Append(l.errors, rowError(q.input, l.i, "Invalid date format")))
        ELSE IF l.col <= Len(r.pairs)
        THEN IF r.pairs[l.col].itemName = <<>>
             THEN resume([q EXCEPT !.local.col = @ + 1])
             ELSE IF validQuantity(r.pairs[l.col].quantityValue)
             THEN [q EXCEPT !.pc = "find_item"]
             ELSE resume([q EXCEPT
                      !.local.col = @ + 1,
                      !.local.rowErrors =
                          Append(@, rowError(q.input, l.i, "Invalid quantity"))])
        ELSE IF l.transactionItems = <<>>
        THEN skip(l.errors \o l.rowErrors \o
                  (IF l.rowErrors = <<>>
                   THEN <<rowError(q.input, l.i, "No valid items found")>> ELSE <<>>))
        ELSE [q EXCEPT !.pc = "import_transaction", !.local.errors = @ \o l.rowErrors]

\* transactionItems.push({ item_id, quantity }) and on to the next column.
pushed(q, item_id) ==
    LET quantity == floor(rowsOf(q.input)[q.local.i].pairs[q.local.col].quantityValue[1])
    IN  resume([q EXCEPT
            !.local.transactionItems = Append(@, [item_id |-> item_id, quantity |-> quantity]),
            !.local.col = @ + 1])

\* The insert of row i into the table, kept in the list of the call's writes.
written(q, table) == Append(q.local.writes, [row |-> rowNum(q.input, q.local.i), table |-> table])

\* importTransactionsFromExcel up to its first select, or to its return.
ImportTransactionsFromExcel ==
    \E r \in Requests, input \in ImportSheets, u \in UserIds :
        LET q == call("importTransactionsFromExcel", u, input, "start",
                      [i |-> 1, col |-> 1, transactionItems |-> <<>>,
                       rowErrors |-> <<>>, errors |-> <<>>, imported_count |-> 0,
                       transaction_id |-> 0, k |-> 1, writes |-> <<>>])
            failure(message) ==
                finish(q, resolved([success |-> FALSE, imported_count |-> 0,
                                    errors |-> <<[row |-> 0, message |-> message]>>]))
        IN  /\ canStart(r)
            /\ requests' = [requests EXCEPT ![r] =
                   IF Len(input.data) = 0 THEN failure("File is empty")
                   ELSE IF Len(rowsOf(input)) = 0 THEN failure("No data rows found")
                   ELSE resume(q)]
            /\ UNCHANGED <<mining, tables, now>>

\* import: the select of the item by name; a row found is used.
FindItem ==
    \E r \in Requests :
        LET q == requests[r]
            itemName == rowsOf(q.input)[q.local.i].pairs[q.local.col].itemName
            item == {it \in itemsTable : it.name = itemName}
            first == CHOOSE it \in item : \A other \in item : it.id <= other.id
        IN  /\ q.pc = "find_item"
            /\ requests' = [requests EXCEPT ![r] =
                   IF item = {} THEN [q EXCEPT !.pc = "create_item"]
                   ELSE pushed(q, first.id)]
            /\ UNCHANGED <<mining, tables, now>>

\* import: the insert of the item that was not found.
CreateImportedItem ==
    \E r \in Requests :
        LET q == requests[r]
            newItem == [id   |-> serial.items,
                        name |-> rowsOf(q.input)[q.local.i].pairs[q.local.col].itemName]
        IN  /\ q.pc = "create_item"
            /\ itemsTable' = itemsTable \cup {newItem}
            /\ serial' = [serial EXCEPT !.items = @ + 1]
            /\ requests' = [requests EXCEPT ![r] =
                   pushed([q EXCEPT !.local.writes = written(q, "items")], newItem.id)]
            /\ UNCHANGED <<mining, transactionsTable, transactionItemsTable,
                           miningResultsTable, now>>

\* import: the insert of the row's transaction.
ImportTransaction ==
    \E r \in Requests :
        LET q == requests[r]
        IN  /\ q.pc = "import_transaction"
            /\ transactionsTable' = transactionsTable \cup
                   {[id |-> serial.transactions, created_by |-> q.userId]}
            /\ serial' = [serial EXCEPT !.transactions = @ + 1]
            /\ requests' = [requests EXCEPT
                   ![r].pc = "import_item",
                   ![r].local.transaction_id = serial.transactions,
                   ![r].local.k = 1,
                   ![r].local.writes = written(q, "transactions")]
            /\ UNCHANGED <<mining, itemsTable, transactionItemsTable,
                           miningResultsTable, now>>

\* import: the insert of one line item; after the last one, imported_count++
\* and the next row.
ImportLineItem ==
    \E r \in Requests :
        LET q == requests[r]
            l == q.local
            item == l.transactionItems[l.k]
        IN  /\ q.pc = "import_item"
            /\ isInt4(item.quantity)
            /\ transactionItemsTable' = Append(transactionItemsTable,
                   [transaction_id |-> l.transaction_id, item_id |-> item.item_id,
                    quantity |-> item.quantity.n])
            /\ requests' = [requests EXCEPT ![r] =
                   IF l.k < Len(l.transactionItems)
                   THEN [q EXCEPT !.local.k = @ + 1,
                                  !.local.writes = written(q, "transaction_items")]
                   ELSE resume([q EXCEPT !.local =
                            nextRow([l EXCEPT !.imported_count = @ + 1,
                                              !.writes = written(q, "transaction_items")],
                                    l.i + 1)])]
            /\ UNCHANGED <<mining, itemsTable, transactionsTable, miningResultsTable,
                           serial, now>>

\* import: the database refuses a quantity that is no integer of the column;
\* the catch of the row keeps the message and the loop goes to the next row.
ImportLineItemFails ==
    \E r \in Requests :
        LET q == requests[r]
            l == q.local
            item == l.transactionItems[l.k]
        IN  /\ q.pc = "import_item"
            /\ ~isInt4(item.quantity)
            /\ requests' = [requests EXCEPT ![r] =
                   resume([q EXCEPT !.local =
                       nextRow([l EXCEPT !.errors =
                                    Append(@, rowError(q.input, l.i, "invalid input for type integer"))],
                               l.i + 1)])]
            /\ UNCHANGED <<mining, tables, now>>

ServerNext ==
    \/ RunAprioriMining \/ RunFPGrowthMining \/ CompareMiningResults
    \/ Tick \/ FetchAndMine \/ FetchFails \/ InsertMiningResult \/ InsertFails
    \/ GetMiningResults \/ GetMiningResultById
    \/ CreateTransaction \/ CheckItemExists \/ InsertTransaction
    \/ InsertTransactionItems
    \/ DeleteTransaction \/ DeleteTransactionItems \/ DeleteTransactionRow
    \/ CreateItem \/ InsertItem
    \/ UpdateItem \/ GetItemById \/ UpdateItemRow
    \/ DeleteItem \/ CheckItemUsed \/ DeleteItemRow
    \/ ImportTransactionsFromExcel \/ FindItem \/ CreateImportedItem
    \/ ImportTransaction \/ ImportLineItem \/ ImportLineItemFails

\* The handlers as concurrent calls on one database.
Server == ServerInit /\ [][ServerNext]_vars

\* -------------------------------------------------------------- the sessions
JWT_SECRET == "your-secret-key"

\* 24 * 60 * 60 seconds, the lifetime createJWT gives a token for '24h'
Day == 24 * 60 * 60

\* Math.floor(Date.now() / 1000) at the clock value ms
seconds(ms) == ms \div 1000

\* btoa(JSON.stringify(header))
encodedHeader == "HS256.JWT"

\* btoa of the bytes of signatureInput + secret.  A token is the sequence of
\* the parts split('.') returns; an encoded payload is the object it decodes
\* to, with json FALSE for a part that atob or JSON.parse throws on.
signature(header, payload, secret) ==
    [signatureInput |-> <<header, payload>>, secret |-> secret]

createJWT(payload, secret) ==
    LET jwtPayload == [userId |-> payload.userId, username |-> payload.username,
                       role |-> payload.role, iat |-> seconds(now),
                       exp |-> seconds(now) + Day, json |-> TRUE]
    IN  <<encodedHeader, jwtPayload, signature(encodedHeader, jwtPayload, secret)>>

\* verifyJWT: the payload, or null (<<>>).
verifyJWT(token, secret) ==
    IF Len(token) # 3 THEN <<>>
    ELSE LET payload == token[2]
         IN  IF token[3] # signature(token[1], token[2], secret) THEN <<>>
             ELSE IF ~payload.json THEN <<>>
             ELSE IF payload.exp # 0 /\ payload.exp < seconds(now) THEN <<>>
             ELSE <<payload>>

\* The User object login and getCurrentUser return.
userOf(user) ==
    [id |-> user.id, username |-> user.username, password_hash |-> user.password_hash,
     role |-> user.role]

\* loginInputSchema: two non-empty strings.
LoginInputs ==
    [username : {"admin", "testuser", "nonexistent"}, password : {"adminpass", "testpass"}]

\* login: the select of the user by name, the password check, the token.
login(input) ==
    LET users == {usr \in usersTable : usr.username = input.username}
        user == CHOOSE usr \in users : TRUE
    IN  IF users = {} THEN <<>>
        ELSE IF ~verify(input.password, user.password_hash) THEN <<>>
        ELSE <<[user  |-> userOf(user),
                token |-> createJWT([userId |-> user.id, username |-> user.username,
                                     role |-> user.role], JWT_SECRET)]>>

\* getCurrentUser: verifyJWT, then the select of the user by the id decoded.
getCurrentUser(token) ==
    LET decoded == verifyJWT(token, JWT_SECRET)
        users == {usr \in usersTable : usr.id = decoded[1].userId}
    IN  IF decoded = <<>> \/ decoded[1].userId = 0 THEN <<>>
        ELSE IF users = {} THEN <<>>
        ELSE <<userOf(CHOOSE usr \in users : TRUE)>>

\* A token made outside the server and signed with the given secret.
signedToken(payload, secret) ==
    <<encodedHeader, payload, signature(encodedHeader, payload, secret)>>

\* Payloads of such tokens: for user 1 or for the id of no user, expiring
\* at second 0, at second 1 or a second after the first day.
ForeignPayloads ==
    [userId : {1, missingUserId}, username : {"test"}, role : {"user"}, iat : {0},
     exp : {0, 1, Day + 1}, json : {TRUE}]

\* The strings a client sends to getCurrentUser besides the tokens logins
\* returned: signed with the server's secret or with another one, with a
\* part missing or added, and with a payload that does not decode.
ForeignTokens ==
    LET first == [userId |-> 1, username |-> "test", role |-> "user", iat |-> 0,
                  exp |-> Day + 1, json |-> TRUE]
        whole == signedToken(first, JWT_SECRET)
    IN  {signedToken(p, secret) : p \in ForeignPayloads,
                                  secret \in {JWT_SECRET, "another-secret"}}
        \cup {SubSeq(whole, 1, 2), Append(whole, whole[3]),
              signedToken([first EXCEPT !.json = FALSE], JWT_SECRET)}

\* The tokens the logins so far have returned.
returnedTokens ==
    {requests[r].response[1].value[1].token :
        r \in {x \in Requests : /\ requests[x].op = "login"
                                 /\ requests[x].response[1].value # <<>>}}

\* The instants at which calls arrive, in milliseconds.
Instants ==
    {0, 999, 1000, Day * 1000, Day * 1000 + 999, Day * 1000 + 1000,
     Day * 1000 + 1999, Day * 1000 + 2000}

Login ==
    \E r \in Requests, input \in LoginInputs :
        /\ canStart(r)
        /\ requests' = [requests EXCEPT ![r] =
               finish(call("login", undefinedUserId, input, "select", [at |-> now]),
                      resolved(login(input)))]
        /\ UNCHANGED <<mining, tables, now>>

GetCurrentUser ==
    \E r \in Requests, token \in ForeignTokens \cup returnedTokens :
        /\ canStart(r)
        /\ requests' = [requests EXCEPT ![r] =
               finish(call("getCurrentUser", undefinedUserId, token, "select", [at |-> now]),
                      resolved(getCurrentUser(token)))]
        /\ UNCHANGED <<mining, tables, now>>

\* Time passes between two calls.
Pass ==
    /\ \E t \in Instants : t > now /\ now' = t
    /\ UNCHANGED <<mining, tables, requests>>

AuthNext == Login \/ GetCurrentUser \/ Pass

\* login and getCurrentUser called over two days.
Auth == ServerInit /\ [][AuthNext]_vars

\* ------------------------------------------------------------------ claims
Done == pc \in {"mined", "again"}

total == Len(transactions)

Itemsets == {frequent_itemsets[i] : i \in DOMAIN frequent_itemsets}

Rules == {association_rules[i] : i \in DOMAIN association_rules}

members(s) == {s[i] : i \in DOMAIN s}

\* No item name of the baskets holds a comma.
plainNames ==
    \A t \in DOMAIN transactions : \A x \in members(transactions[t]) : Len(x) = 1

\* A run on comma-free names under thresholds in (0, 1].
PlainRun ==
    /\ Done
    /\ plainNames
    /\ parameters.min_support.n > 0
    /\ parameters.min_confidence.n > 0

\* Number of baskets that contain every name of the set.
basketCount(names) ==
    Cardinality({t \in DOMAIN transactions : names \subseteq members(transactions[t])})

\* count >= ceil(min_support * len(baskets)), for an integer count
meetsSupport(count) ==
    count * parameters.min_support.d >= parameters.min_support.n * total

\* C1: every FrequentItemset either miner returns has support = count /
\* len(baskets) and count >= ceil(min_support * len(baskets)).
C1_SupportIsCountOverTotal ==
    Done => \A f \in Itemsets :
                /\ total > 0
                /\ f.support.n * total = f.count * f.support.d
                /\ meetsSupport(f.count)

C1_Witness ==
    /\ PlainRun
    /\ total = 2
    /\ parameters.min_support = Frac(1, 2)
    /\ \E f \in Itemsets : Len(f.itemset) = 2 /\ f.count = 1 /\ f.support = Frac(1, 2)

\* C2: every rule has a non-empty antecedent and a non-empty consequent that
\* are disjoint, and their sorted union is the sorted member list of a
\* returned FrequentItemset.
C2_RulesSplitAnItemset ==
    Done => \A r \in Rules :
                /\ r.antecedent # <<>>
                /\ r.consequent # <<>>
                /\ members(r.antecedent) \cap members(r.consequent) = {}
                /\ \E f \in Itemsets :
                       Sort(r.antecedent \o r.consequent) = Sort(f.itemset)

\* C3: every emitted rule has confidence >= min_confidence, the confidence
\* being the itemset's support divided by the fraction of baskets that
\* contain every antecedent item.
C3_ConfidenceMeetsThreshold ==
    Done => \A r \in Rules :
                /\ ~IsNaN(r.confidence)
                /\ r.confidence.n * parameters.min_confidence.d
                       >= parameters.min_confidence.n * r.confidence.d
                /\ r.confidence.n * r.support.d * basketCount(members(r.antecedent))
                       = r.confidence.d * r.support.n * total

C3_Witness ==
    /\ PlainRun
    /\ parameters.min_confidence = Frac(1, 2)
    /\ \E r \in Rules : r.confidence = Frac(1, 2)
    /\ \E r \in Rules : r.confidence = Frac(1, 1)

\* C4: Apriori returns no itemset of more than 3 members and FP-Growth none
\* of more than 2 members.
C4_ItemsetSizeCaps ==
    Done => \A f \in Itemsets :
                /\ algorithm = "apriori" => Len(f.itemset) <= 3
                /\ algorithm = "fp_growth" => Len(f.itemset) <= 2

\* C5: the lift of every emitted rule is its confidence divided by
\* itemset.count / totalBaskets of the frequent itemset it was split from.
C5_LiftUsesItemsetSupport ==
    Done => \A r \in Rules :
                \E f \in Itemsets :
                    /\ Len(f.itemset) >= 2
                    /\ Sort(r.antecedent \o r.consequent) = Sort(f.itemset)
                    /\ r.support = f.support
                    /\ r.lift = Norm([n |-> r.confidence.n * total,
                                      d |-> r.confidence.d * f.count])

consequentSupport(r) == Norm(Frac(basketCount(members(r.consequent)), total))

textbookLift(r) ==
    Norm([n |-> r.confidence.n * consequentSupport(r).d,
          d |-> r.confidence.d * consequentSupport(r).n])

C5_Witness ==
    /\ PlainRun
    /\ \E r \in Rules : IsFinite(r.lift) /\ r.lift # textbookLift(r)

allItems == UNION {members(transactions[t]) : t \in DOMAIN transactions}

frequentNames == {x \in allItems : meetsSupport(basketCount({x}))}

\* C7: FP-Growth returns exactly the single items whose basket count meets
\* minSupportCount and the pairs of such items whose co-occurrence count
\* meets it, each once and with that count.
C7_FPGrowthSinglesAndPairs ==
    (Done /\ algorithm = "fp_growth") =>
        LET expected ==
                {[itemset |-> <<x>>, count |-> basketCount({x})] : x \in frequentNames}
                \cup {[itemset |-> <<p[1], p[2]>>, count |-> basketCount({p[1], p[2]})] :
                         p \in {q \in frequentNames \X frequentNames :
                                   /\ NameLess(q[1], q[2])
                                   /\ meetsSupport(basketCount({q[1], q[2]}))}}
            returned == {[itemset |-> f.itemset, count |-> f.count] : f \in Itemsets}
        IN  /\ returned = expected
            /\ Len(frequent_itemsets) = Cardinality(expected)

C7_Witness ==
    /\ PlainRun
    /\ algorithm = "fp_growth"
    /\ \E f \in Itemsets : Len(f.itemset) = 2
    /\ \E x, y \in frequentNames : x # y /\ ~meetsSupport(basketCount({x, y}))

\* C8: a second run of the same strategy on the same baskets and parameters
\* returns the same set of frequent itemsets (members, support, count) and
\* the same set of rules.  A basket is a set of item names and the store
\* returns rows in no fixed order, so the two runs see the same baskets
\* whatever order their rows and items come back in.
C8_SecondRunSameSets ==
    pc = "again" => /\ Itemsets = first_run.itemsets
                    /\ Rules = first_run.rules

\* C9: on an empty basket list both miners and the rule generator return
\* the empty list, and no division by zero is executed.
C9_EmptyBaskets ==
    (Done /\ transactions = <<>>) =>
        /\ frequent_itemsets = <<>>
        /\ association_rules = <<>>
        /\ zero_divisions = 0

C9_Witness ==
    /\ Done
    /\ transactions = <<>>
    /\ parameters.min_support = Frac(0, 1)
    /\ algorithm = "apriori"

\* x in (0, 1]
inHalfOpenUnit(x) == x.n > 0 /\ x.n <= x.d

\* C10: a request whose min_support or min_confidence is outside (0,1], the
\* value 0 included, is rejected before a miner runs.
C10_OnlyPositiveThresholdsMine ==
    Done => /\ inHalfOpenUnit(parameters.min_support)
            /\ inHalfOpenUnit(parameters.min_confidence)

\* C11: no emitted rule has a confidence or lift that is NaN or infinite, and
\* no rule is emitted from a split whose antecedent is in no basket, whatever
\* miner produced the itemsets under parameters the validator accepts.
C11_NoRuleFromZeroDivision ==
    Done => \A r \in Rules :
                /\ basketCount(members(r.antecedent)) > 0
                /\ IsFinite(r.confidence)
                /\ IsFinite(r.lift)

\* C19: with exactly one basket and min_support in (0, 1], Apriori returns
\* every single item and every 2-item subset of the basket, and every itemset
\* it returns has support 1 and count 1.
C19_SingleBasket ==
    (Done /\ algorithm = "apriori" /\ total = 1 /\ inHalfOpenUnit(parameters.min_support)) =>
        LET basket == members(transactions[1])
        IN  /\ \A x \in basket : \E f \in Itemsets : f.itemset = <<x>>
            /\ \A x, y \in basket :
                   x # y => \E f \in Itemsets :
                                Len(f.itemset) = 2 /\ members(f.itemset) = {x, y}
            /\ \A f \in Itemsets : f.support = Frac(1, 1) /\ f.count = 1

\* The sets of 1 to 3 names of the baskets that are in enough baskets, with
\* the number of baskets that hold them.
frequentSets ==
    {[names |-> S, count |-> basketCount(S)] :
        S \in {T \in SUBSET allItems :
                  /\ Cardinality(T) \in 1..3
                  /\ meetsSupport(basketCount(T))}}

\* C26: for min_support in (0, 1] Apriori returns exactly the sets of 1, 2
\* and 3 item names whose number of containing baskets is at least
\* ceil(min_support * len(baskets)), each once, each with that number as its
\* count and with as many members as the set has names.
C26_AprioriIsComplete ==
    (Done /\ algorithm = "apriori" /\ inHalfOpenUnit(parameters.min_support)) =>
        /\ {[names |-> members(f.itemset), count |-> f.count] : f \in Itemsets}
               = frequentSets
        /\ Len(frequent_itemsets) = Cardinality(frequentSets)
        /\ \A f \in Itemsets : Len(f.itemset) = Cardinality(members(f.itemset))

\* The entries of one and two members of a miner's result, as sets of names
\* with their counts.
smallEntries(fis) ==
    {[names |-> members(fis[i].itemset), count |-> fis[i].count] :
        i \in {j \in DOMAIN fis : Len(fis[j].itemset) <= 2}}

\* The result of the miner that did not run, on the same baskets.
otherMiner ==
    IF algorithm = "apriori"
    THEN fpGrowthAlgorithm(transactions, parameters.min_support)
    ELSE aprioriAlgorithm(transactions, parameters.min_support)

\* C27: under every min_support the validator accepts, the entries of size 1
\* and 2 FP-Growth returns are the entries of size 1 and 2 Apriori returns
\* on the same baskets, with the same counts.
C27_MinersAgreeUpToPairs ==
    Done => smallEntries(frequent_itemsets) = smallEntries(otherMiner)

\* C28: for min_support in (0, 1] every emitted rule has 0 < confidence <= 1
\* and a lift of len(baskets) divided by the number of baskets that contain
\* its antecedent, which is at least 1.
C28_ConfidenceAndLiftBounds ==
    (Done /\ inHalfOpenUnit(parameters.min_support)) =>
        \A r \in Rules :
            /\ IsFinite(r.confidence)
            /\ r.confidence.n > 0
            /\ r.confidence.n <= r.confidence.d
            /\ IsFinite(r.lift)
            /\ r.lift.n >= r.lift.d
            /\ r.lift.n * basketCount(members(r.antecedent)) = r.lift.d * total

\* The candidates of two and three names of the baskets.
candidatesOfNames ==
    {<<x, y>> : x, y \in allItems} \cup {<<x, y, z>> : x, y, z \in allItems}

\* C29: every member of every itemset Apriori returns is an item name of
\* some basket, no itemset has more than 3 members or a member twice, and
\* for every candidate of item names of the baskets the key built with
\* join(',') splits back into the candidate's sorted members.
C29_JoinSplitRoundTrip ==
    (Done /\ algorithm = "apriori") =>
        /\ \A f \in Itemsets :
               /\ members(f.itemset) \subseteq allItems
               /\ Len(f.itemset) <= 3
               /\ Len(f.itemset) = Cardinality(members(f.itemset))
        /\ \A candidate \in candidatesOfNames : Split(Join(candidate)) = Sort(candidate)

\* ---------------------------------------------------- claims on the handlers
MiningOps == {"runAprioriMining", "runFPGrowthMining", "compareMiningResults"}

miningCalls == {r \in Requests : requests[r].op \in MiningOps}

callsOf(op) == {r \in Requests : requests[r].op = op}

hasResolved(r) ==
    requests[r].response # <<>> /\ requests[r].response[1].status = "resolved"

hasRejected(r) ==
    requests[r].response # <<>> /\ requests[r].response[1].status = "rejected"

stored == {miningResultsTable[k] : k \in DOMAIN miningResultsTable}

\* C12: a comparison returns the stored Apriori result and the stored FP-Growth
\* result of its own two runs, and its metrics are the FP-Growth value minus
\* the Apriori value for the time, the itemset count and the rule count, with
\* faster_algorithm 'apriori' exactly when Apriori's time is strictly smaller.
C12_ComparisonMetrics ==
    \A r \in callsOf("compareMiningResults") :
        hasResolved(r) =>
            LET c == requests[r].response[1].value
                a == c.apriori_result
                f == c.fp_growth_result
                m == c.comparison_metrics
            IN  /\ a.algorithm = "apriori" /\ f.algorithm = "fp_growth"
                /\ requests[r].local.results = <<a, f>>
                /\ {a, f} \subseteq stored
                /\ m.execution_time_difference + a.execution_time_ms = f.execution_time_ms
                /\ m.itemsets_count_difference + Len(a.frequent_itemsets)
                       = Len(f.frequent_itemsets)
                /\ m.rules_count_difference + Len(a.association_rules)
                       = Len(f.association_rules)
                /\ m.faster_algorithm \in {"apriori", "fp_growth"}
                /\ m.faster_algorithm = "apriori"
                       <=> a.execution_time_ms < f.execution_time_ms

\* A tie in time with more itemsets and more rules from FP-Growth.
C12_Witness ==
    \E r \in callsOf("compareMiningResults") :
        /\ hasResolved(r)
        /\ LET c == requests[r].response[1].value
               m == c.comparison_metrics
           IN  /\ m.execution_time_difference = 0
               /\ m.faster_algorithm = "fp_growth"
               /\ m.itemsets_count_difference > 0
               /\ m.rules_count_difference > 0

\* The baskets a run mined: the items of every transaction it fetched.
basketsOf(run) == [k \in DOMAIN run.transactionData |-> run.transactionData[k].items]

\* C13: the two runs of a comparison mine the same basket list under the same
\* parameters, whatever other calls run in between.
C13_CompareMinesSameBaskets ==
    \A r \in callsOf("compareMiningResults") :
        \A i, j \in DOMAIN requests[r].local.runs :
            LET runs == requests[r].local.runs
            IN  /\ basketsOf(runs[i]) = basketsOf(runs[j])
                /\ runs[i].parameters = runs[j].parameters

\* Number of results a call has been returned by its inserts.
RECURSIVE returnedBy(_)
returnedBy(calls) ==
    IF calls = {} THEN 0
    ELSE LET r == CHOOSE c \in calls : TRUE
         IN  Len(requests[r].local.results) + returnedBy(calls \ {r})

\* Every mining call made so far has returned its result.
allSucceeded == \A r \in miningCalls : hasResolved(r)

\* C14: the store holds one record per run of the successfully completed
\* calls (one per runAprioriMining and runFPGrowthMining, an Apriori and an
\* FP-Growth record per compareMiningResults) besides the records it held
\* before, each with the algorithm, thresholds and user of its call; and a
\* record once inserted stays in the store as it was inserted.
C14_OneRecordPerRun ==
    /\ miningResultsTable[1] = earlierResult
    /\ \A r \in miningCalls :
           LET q == requests[r]
               results == q.local.results
           IN  /\ \A k \in DOMAIN results :
                      /\ results[k].id \in DOMAIN miningResultsTable
                      /\ miningResultsTable[results[k].id] = results[k]
                      /\ results[k].parameters = q.input
                      /\ results[k].created_by = q.userId
                      /\ \A s \in miningCalls : \A l \in DOMAIN requests[s].local.results :
                             requests[s].local.results[l].id = results[k].id
                                 => s = r /\ l = k
               /\ hasResolved(r) =>
                      [k \in DOMAIN results |-> results[k].algorithm] =
                          CASE q.op = "runAprioriMining" -> <<"apriori">>
                            [] q.op = "runFPGrowthMining" -> <<"fp_growth">>
                            [] OTHER -> <<"apriori", "fp_growth">>
    /\ allSucceeded => Len(miningResultsTable) = 1 + returnedBy(miningCalls)

\* A comparison of user 2 and a run of user 1 have both completed.
C14_Witness ==
    /\ allSucceeded
    /\ \E r \in callsOf("compareMiningResults") : requests[r].userId = 2
    /\ \E r \in callsOf("runAprioriMining") :
           requests[r].userId = 1 /\ requests[r].input.min_support = Frac(0, 1)
    /\ Len(miningResultsTable) = 4

\* execution_time_ms of the k-th run of a call.
measured(q, k) ==
    IF k <= Len(q.local.results) THEN q.local.results[k].execution_time_ms
    ELSE q.local.pending.execution_time_ms

\* C15: the measured interval holds the mining and rule-generation steps
\* only: execution_time_ms is the time from the return of the baskets to the
\* end of rule generation, which is what a timer started after the fetch and
\* stopped before the insert measures.
C15_TimerSpansMiningOnly ==
    \A r \in miningCalls :
        \A k \in DOMAIN requests[r].local.runs :
            LET run == requests[r].local.runs[k]
            IN  measured(requests[r], k) = run.stoppedAt - run.fetchedAt

\* C16: a mining call whose select or insert failed rejects with the error
\* the database raised and returns nothing; a call that returned did not
\* fail, and a comparison that returned holds both of its stored results.
C16_FailuresPropagate ==
    \A r \in miningCalls :
        LET q == requests[r]
        IN  /\ q.local.failure # <<>> =>
                   /\ q.pc = "done"
                   /\ q.response = <<[status |-> "rejected", error |-> q.local.failure[1]]>>
            /\ q.pc = "done" => hasResolved(r) \/ hasRejected(r)
            /\ hasRejected(r) => q.local.failure # <<>>
            /\ hasResolved(r) =>
                   /\ q.local.failure = <<>>
                   /\ IF q.op = "compareMiningResults"
                      THEN /\ q.response[1].value.apriori_result \in stored
                           /\ q.response[1].value.fp_growth_result \in stored
                      ELSE q.response[1].value \in stored

\* A comparison rejected by the failed insert of its FP-Growth run, and a
\* run rejected by its failed select.
C16_Witness ==
    /\ \E r \in callsOf("compareMiningResults") :
           /\ requests[r].response = rejected("insert failed")
           /\ Len(requests[r].local.results) = 1
    /\ \E r \in callsOf("runFPGrowthMining") :
           requests[r].response = rejected("select failed")

\* C17: the basket of every transaction a run fetched is the set of the
\* distinct names of the items on the transaction's line items, whatever
\* their quantities.
C17_BasketIsDistinctNames ==
    \A r \in miningCalls :
        \A k \in DOMAIN requests[r].local.runs :
            LET run == requests[r].local.runs[k]
                rows == {run.results[i] : i \in DOMAIN run.results}
                data == {run.transactionData[i] : i \in DOMAIN run.transactionData}
            IN  /\ {row.transactionId : row \in rows} = {t.transactionId : t \in data}
                /\ Len(run.transactionData) = Cardinality(data)
                /\ \A t \in data :
                       /\ members(t.items) =
                              {row.itemName : row \in
                                  {x \in rows : x.transactionId = t.transactionId}}
                       /\ Len(t.items) = Cardinality(members(t.items))

\* C18: getMiningResults(u) returns exactly the stored results created by u,
\* or all of them without a user id; getMiningResultById(id, u) returns the
\* stored result with that id if u created it, and null otherwise.
C18_ReadsAreUserScoped ==
    /\ \A r \in callsOf("getMiningResults") :
           LET q == requests[r]
               got == q.response[1].value
               then == {q.local.stored[k] : k \in DOMAIN q.local.stored}
               expected == {row \in then : q.userId = undefinedUserId
                                              \/ row.created_by = q.userId}
           IN  /\ hasResolved(r)
               /\ {got[k] : k \in DOMAIN got} = expected
               /\ Len(got) = Cardinality(expected)
    /\ \A r \in callsOf("getMiningResultById") :
           LET q == requests[r]
               got == q.response[1].value
               then == {q.local.stored[k] : k \in DOMAIN q.local.stored}
               hits == {row \in then : row.id = q.input /\ row.created_by = q.userId}
           IN  /\ hasResolved(r)
               /\ hits = {} => got = <<>>
               /\ hits # {} => Len(got) = 1 /\ got[1] \in hits
               /\ Cardinality(hits) <= 1

\* User 1 lists the stored results: its own one, not the one of user 2.
C18_Witness ==
    \E r \in callsOf("getMiningResults") :
        /\ requests[r].userId = 1
        /\ Len(requests[r].local.stored) = 2
        /\ Len(requests[r].response[1].value) = 1
        /\ requests[r].response[1].value[1].created_by = 1

\* C20: every line item references an existing item and an existing
\* transaction, in every state the interleaved handlers reach.
C20_LineItemsReferenceRows ==
    \A k \in DOMAIN transactionItemsTable :
        /\ itemById(transactionItemsTable[k].item_id) # {}
        /\ \E t \in transactionsTable : t.id = transactionItemsTable[k].transaction_id

\* The transaction rows a call has inserted so far.
insertedTransactions(r) ==
    LET q == requests[r]
    IN  IF q.op = "createTransaction"
        THEN (IF q.local.transaction # <<>> THEN 1 ELSE 0)
        ELSE IF q.op = "importTransactionsFromExcel"
        THEN Len(SelectSeq(q.local.writes, LAMBDA w : w.table = "transactions"))
        ELSE 0

RECURSIVE sumOver(_, _)
sumOver(f(_), S) ==
    IF S = {} THEN 0
    ELSE LET x == CHOOSE y \in S : TRUE IN f(x) + sumOver(f, S \ {x})

\* C21: createTransaction called with a userId that is not in users rejects
\* with 'User not found' before it selects any item; a call whose select of
\* an item of its input returned no row rejects with 'Item with id <id> not
\* found' for that item; a rejected call has inserted no transaction, and so
\* no line item: every transaction row inserted since the start is accounted
\* for by a call that went past its checks.
C21_RejectedCreateAddsNothing ==
    /\ \A r \in callsOf("createTransaction") :
           LET q == requests[r]
               found == q.local.found
               misses == {k \in DOMAIN found : ~found[k]}
           IN  /\ q.userId \notin UserIds <=> q.response = rejected("User not found")
               /\ q.userId \notin UserIds => found = <<>>
               /\ misses # {} =>
                      /\ misses = {Len(found)}
                      /\ q.response = rejected("Item with id "
                             \o ToString(q.input[Len(found)].item_id) \o " not found")
               /\ hasRejected(r) =>
                      /\ q.local.transaction = <<>>
                      /\ q.userId \notin UserIds \/ misses # {}
    /\ serial.transactions - 3 = sumOver(insertedTransactions, Requests)

\* One call by the id of no user, and one whose second item is not stored
\* after its first item was found.
C21_Witness ==
    \E r, s \in callsOf("createTransaction") :
        /\ requests[r].response = rejected("User not found")
        /\ requests[s].response = rejected("Item with id 3 not found")
        /\ requests[s].local.found = <<TRUE, FALSE>>

\* C22: deleteTransaction(id, u) returns true exactly when its select found
\* a transaction with that id created by u, and it has then removed that row
\* and left no line item of the transaction; a call that returns false has
\* removed no row of transactions and no row of transaction_items.
C22_DeleteTransactionFrame ==
    \A r \in callsOf("deleteTransaction") :
        LET q == requests[r]
        IN  q.pc = "done" =>
                /\ q.response = resolved(q.local.transaction # {})
                /\ q.response = resolved(TRUE) =>
                       q.local.rowCount = 1 /\ q.local.remaining = 0
                /\ q.response = resolved(FALSE) =>
                       q.local.rowCount = 0 /\ q.local.itemRowCount = 0

ItemOps == {"createItem", "updateItem", "deleteItem"}

isAdminUser(userId) == \E usr \in usersTable : usr.id = userId /\ usr.role = "admin"

onlyAdminsCan(op) ==
    "Only admin users can "
        \o (IF op = "createItem" THEN "create"
            ELSE IF op = "updateItem" THEN "update" ELSE "delete")
        \o " items"

\* C23: createItem, updateItem and deleteItem called with a userId that is
\* not a stored user with role 'admin' reject with 'Only admin users can
\* create / update / delete items' in the step of their call and leave the
\* items table as it is; every step of one of these three handlers that
\* changes the items table belongs to a call by an administrator.
C23_OnlyAdminsChangeItems ==
    [][\A r \in Requests :
          (requests'[r] # requests[r] /\ requests'[r].op \in ItemOps) =>
              LET q == requests'[r]
              IN  IF isAdminUser(q.userId)
                  THEN q.response # rejected(onlyAdminsCan(q.op))
                  ELSE /\ requests[r].pc = "idle"
                       /\ q.response = rejected(onlyAdminsCan(q.op))
                       /\ q.local.result = {}
                       /\ itemsTable' = itemsTable]_vars

\* A plain user refused by createItem and the id of no user refused by
\* updateItem.
C23_Witness ==
    \E r \in callsOf("createItem"), s \in callsOf("updateItem") :
        /\ requests[r].userId = 2
        /\ requests[r].response = rejected("Only admin users can create items")
        /\ requests[s].userId = missingUserId
        /\ requests[s].response = rejected("Only admin users can update items")

\* The token is well formed and in force at the instant ms: three parts, the
\* signature made from its first two parts and the server's secret, a
\* payload that decodes, an exp that has not passed, the id of a stored user.
inForce(token, ms) ==
    /\ Len(token) = 3
    /\ token[3].signatureInput = <<token[1], token[2]>>
    /\ token[3].secret = "your-secret-key"
    /\ token[2].json
    /\ token[2].exp >= ms \div 1000
    /\ \E usr \in usersTable : usr.id = token[2].userId

\* C24: getCurrentUser(token) returns the stored user whose id the token
\* carries iff the token has three parts, its signature is the one made with
\* the server's secret, its exp has not passed and that user is stored, and
\* null otherwise.  login returns null for an unknown username or a wrong
\* password; for the credentials of user u it returns u and a token that
\* carries u's id, username and role, with which getCurrentUser returns u
\* at every instant of the 24 hours after the login, and null from a second
\* after those 24 hours on.
C24_TokensIdentifyUsers ==
    /\ \A r \in callsOf("getCurrentUser") :
           LET q == requests[r]
               token == q.input
               got == q.response[1].value
           IN  IF inForce(token, q.local.at)
               THEN /\ Len(got) = 1
                    /\ got[1].id = token[2].userId
                    /\ \E usr \in usersTable :
                           /\ usr.id = got[1].id
                           /\ usr.username = got[1].username
                           /\ usr.role = got[1].role
               ELSE got = <<>>
    /\ \A r \in callsOf("login") :
           LET q == requests[r]
               got == q.response[1].value
               known == {usr \in usersTable :
                            /\ usr.username = q.input.username
                            /\ usr.password_hash = [hashOf |-> q.input.password]}
           IN  IF known = {} THEN got = <<>>
               ELSE /\ Len(got) = 1
                    /\ \A u \in known :
                           /\ got[1].user.id = u.id
                           /\ got[1].user.username = u.username
                           /\ got[1].user.role = u.role
                           /\ got[1].token[2].userId = u.id
                           /\ got[1].token[2].username = u.username
                           /\ got[1].token[2].role = u.role
                           /\ \A s \in callsOf("getCurrentUser") :
                                  LET later == requests[s].local.at - q.local.at
                                      answer == requests[s].response[1].value
                                  IN  (requests[s].input = got[1].token /\ later >= 0) =>
                                          /\ later <= 24 * 60 * 60 * 1000 =>
                                                 Len(answer) = 1 /\ answer[1].id = u.id
                                          /\ later >= (24 * 60 * 60 + 1) * 1000 =>
                                                 answer = <<>>

\* The writes of a call into a table, and those it made for one row.
writesTo(q, table) == SelectSeq(q.local.writes, LAMBDA w : w.table = table)

writesFor(q, n) ==
    SelectSeq(q.local.writes,
              LAMBDA w : w.row = n /\ w.table \in {"transactions", "transaction_items"})

\* A cell pair that names an item and gives a positive number for it.
validPair(c) ==
    /\ c.itemName # <<>>
    /\ c.quantityValue # <<>>
    /\ c.quantityValue[1].d # 0 \/ c.quantityValue[1].n # 0
    /\ c.quantityValue[1].n > 0

\* A row with a cell filled that the import has to refuse.
refusedRow(r) ==
    \/ r.dateValue \notin {"2024-01-01", "2024-01-02", "2024-01-03", "2024-01-04",
                            "2024-01-05"}
    \/ r.length < 3
    \/ \A k \in DOMAIN r.pairs : ~validPair(r.pairs[k])

filled(r) ==
    r.dateValue # "" \/ \E k \in DOMAIN r.pairs :
                            r.pairs[k].itemName # <<>> \/ r.pairs[k].quantityValue # <<>>

\* C25: an import that has returned reports as imported_count the number of
\* transaction rows it inserted, and success exactly when that count is
\* positive; for a data row with an unparseable date, with fewer than 3
\* columns or with no valid item and quantity pair it inserted no transaction
\* and no line item and its errors hold an entry of that row, while for every
\* other data row it inserted a transaction; for an empty file it returns
\* success false, imported_count 0 and 'File is empty' and has written
\* nothing.
C25_ImportCountsAndErrors ==
    \A r \in callsOf("importTransactionsFromExcel") :
        LET q == requests[r]
            got == q.response[1].value
            rows == IF q.input.has_header /\ q.input.data # <<>>
                    THEN Tail(q.input.data) ELSE q.input.data
            number(i) == IF q.input.has_header THEN i + 1 ELSE i
        IN  q.pc = "done" =>
                /\ hasResolved(r)
                /\ got.imported_count = Len(writesTo(q, "transactions"))
                /\ got.success <=> got.imported_count > 0
                /\ \A i \in DOMAIN rows :
                       filled(rows[i]) =>
                           IF refusedRow(rows[i])
                           THEN /\ writesFor(q, number(i)) = <<>>
                                /\ \E e \in DOMAIN got.errors : got.errors[e].row = number(i)
                           ELSE Len(SelectSeq(writesTo(q, "transactions"),
                                              LAMBDA w : w.row = number(i))) = 1
                /\ q.input.data = <<>> =>
                       /\ got = [success |-> FALSE, imported_count |-> 0,
                                 errors |-> <<[row |-> 0, message |-> "File is empty"]>>]
                       /\ q.local.writes = <<>>

\* C30: a comparison is in its FP-Growth run only once its Apriori run has
\* stopped and the Apriori record is stored, and the FP-Growth run fetches no
\* earlier than the Apriori run stopped; a comparison whose FP-Growth run
\* failed has rejected with that error and its Apriori record is still
\* stored, the one record the comparison added; the stored records are the
\* earlier one and those the runs of the calls inserted.
C30_FailedComparisonKeepsApriori ==
    /\ \A r \in callsOf("compareMiningResults") :
           LET q == requests[r]
               l == q.local
               own == {row \in stored : \E k \in DOMAIN l.results : l.results[k].id = row.id}
           IN  /\ l.algorithm = "fp_growth" =>
                      /\ Len(l.results) >= 1
                      /\ l.results[1].algorithm = "apriori"
                      /\ l.results[1] \in stored
                      /\ Len(l.runs) >= 1
                      /\ l.startTime >= l.runs[1].stoppedAt
               /\ Len(l.runs) = 2 => l.runs[2].fetchedAt >= l.runs[1].stoppedAt
               /\ (l.failure # <<>> /\ l.algorithm = "fp_growth") =>
                      /\ q.response = rejected(l.failure[1])
                      /\ Len(l.results) = 1
                      /\ own = {l.results[1]}
               /\ (l.failure # <<>> /\ l.algorithm = "apriori") =>
                      /\ q.response = rejected(l.failure[1])
                      /\ own = {}
    /\ Len(miningResultsTable) - 1
           = sumOver(LAMBDA r : IF r \in miningCalls THEN Len(requests[r].local.results)
                                ELSE 0,
                     Requests)

\* A comparison alone, rejected because the select of its FP-Growth run
\* failed: the store holds one record more than before.
C30_Witness ==
    /\ requests[2].pc = "idle"
    /\ requests[1].op = "compareMiningResults"
    /\ requests[1].response = rejected("select failed")
    /\ requests[1].local.algorithm = "fp_growth"
    /\ Len(miningResultsTable) = 2
    /\ miningResultsTable[2].algorithm = "apriori"

====
